---- MODULE Spec2Model ----
(***************************************************************************)
(* Derived State Engine of the blog dashboard: deriveHealth,               *)
(* deriveSectionCompleteness, healthRank and the BlogList filter/sort      *)
(* view, over a catalogue loaded once by useBlogsData.                     *)
(*                                                                         *)
(* Text values that the code only copies or compares for equality (ids,    *)
(* statuses, types) are TLA+ strings.  Text that the code looks into       *)
(* (domain, displayName, domainQuery) is a sequence of one-character       *)
(* strings, so that toLowerCase, includes and localeCompare are computed.  *)
(***************************************************************************)
EXTENDS Integers, Sequences, FiniteSets

VARIABLES
    blogs,         \* useBlogsData: const [blogs, setBlogs]
    loading,       \* useBlogsData: const [loading, setLoading]
    error,         \* useBlogsData: const [error, setError]
    statusFilter,  \* BlogList: const [statusFilter, setStatusFilter]
    healthFilter,  \* BlogList: const [healthFilter, setHealthFilter]
    domainQuery,   \* BlogList: const [domainQuery, setDomainQuery]
    ret,           \* the last engine call made by a caller: function, argument, value
    blogId,        \* BlogDetail: useParams().blogId
    checkResults,  \* BlogDetail: const [checkResults, setCheckResults]
    checking,      \* BlogDetail: const [checking, setChecking]
    run,           \* BlogDetail: the arguments of the runAllChecks calls in flight
    loads,         \* useBlogsData: the loadData calls made so far, each in flight or settled
    calls          \* the engine call that each of several callers is in, loop by loop

vars == <<blogs, loading, error, statusFilter, healthFilter, domainQuery, ret,
          blogId, checkResults, checking, run, loads, calls>>

\* the state of the blog detail page
detailVars == <<blogId, checkResults, checking, run>>

\* the state of the blog list page
filterVars == <<statusFilter, healthFilter, domainQuery>>

----------------------------------------------------------------------------
(* Bounds *)

MaxAssets == 2
MaxBlogs == 2
MaxEvidence == 1
MaxLoads == 3

----------------------------------------------------------------------------
(* schema.ts: the closed enumerations *)

BlogStatus == {"active", "paused", "archived"}

AssetCategory == {"internal", "external", "distribution"}

AssetImportance == {"critical", "important", "optional"}

AssetStatus == {"not_created", "created", "connected", "verified", "error", "skipped"}

HealthLevel == {"healthy", "incomplete", "risk"}

\* the category and default importance of every asset type
ASSET_TYPE_DEFINITIONS ==
    [ github_repo           |-> [category |-> "internal",     defaultImportance |-> "critical"],
      lovable_project       |-> [category |-> "internal",     defaultImportance |-> "critical"],
      production_site       |-> [category |-> "internal",     defaultImportance |-> "critical"],
      google_search_console |-> [category |-> "external",     defaultImportance |-> "critical"],
      google_analytics      |-> [category |-> "external",     defaultImportance |-> "important"],
      facebook_page         |-> [category |-> "external",     defaultImportance |-> "optional"],
      instagram_account     |-> [category |-> "external",     defaultImportance |-> "optional"],
      x_account             |-> [category |-> "external",     defaultImportance |-> "optional"],
      og_metadata           |-> [category |-> "distribution", defaultImportance |-> "optional"],
      share_image           |-> [category |-> "distribution", defaultImportance |-> "optional"],
      rss_feed              |-> [category |-> "distribution", defaultImportance |-> "optional"] ]

AssetType == DOMAIN ASSET_TYPE_DEFINITIONS

EvidenceType == {"manual_note", "api_check", "screenshot", "link"}

Null == "null"

----------------------------------------------------------------------------
(* Sequences *)

SeqsUpTo(S, n) == UNION { [1..k -> S] : k \in 0..n }

Remove(s, i) == [k \in 1..(Len(s) - 1) |-> IF k < i THEN s[k] ELSE s[k + 1]]

Positions(s) == 1..Len(s)

----------------------------------------------------------------------------
(* JavaScript string operations on sequences of characters *)

toLowerChar(c) == CASE c = "A" -> "a" [] c = "B" -> "b" [] OTHER -> c

toLowerCase(s) == [i \in DOMAIN s |-> toLowerChar(s[i])]

\* String.prototype.includes: some offset at which q occurs in s
includes(s, q) ==
    \E off \in 0..(Len(s) - Len(q)) : SubSeq(s, off + 1, off + Len(q)) = q

\* String.prototype.localeCompare in the default collation: letters first
\* (case ignored), a proper prefix before the longer string; strings with
\* the same letters differ by case at the first place where the case
\* differs, lower case before upper case.  -1, 0 or 1.
RECURSIVE compareKeys(_, _, _)
compareKeys(a, b, i) ==
    IF i > Len(a) /\ i > Len(b) THEN 0
    ELSE IF i > Len(a) THEN -1
    ELSE IF i > Len(b) THEN 1
    ELSE IF a[i] < b[i] THEN -1
    ELSE IF a[i] > b[i] THEN 1
    ELSE compareKeys(a, b, i + 1)

letterKey(c) == CASE toLowerChar(c) = "a" -> 1 [] toLowerChar(c) = "b" -> 2 [] OTHER -> 3

caseKey(c) == IF toLowerChar(c) = c THEN 0 ELSE 1

letterKeys(s) == [i \in DOMAIN s |-> letterKey(s[i])]

caseKeys(s) == [i \in DOMAIN s |-> caseKey(s[i])]

localeCompare(a, b) ==
    LET primary == compareKeys(letterKeys(a), letterKeys(b), 1)
    IN  IF primary # 0 THEN primary ELSE compareKeys(caseKeys(a), caseKeys(b), 1)

----------------------------------------------------------------------------
(* lib/deriveHealth.ts *)

BAD_STATUSES_counts_skipped == {"not_created", "error", "skipped"}

BAD_STATUSES == {"not_created", "error"}

reasonFor_names_nothing(asset) == <<"Critical asset missing or broken: ", "asset">>

\* `Critical asset missing or broken: ${asset.type}`, as prefix and type
reasonFor(asset) == <<"Critical asset missing or broken: ", asset.type>>

emptyHealth ==
    [ level   |-> "healthy",
      missing |-> [critical |-> 0, important |-> 0, optional |-> 0],
      reasons |-> <<>> ]

\* the body of "for (const asset of blog.assets)" for one asset
countAsset(result, asset) ==
    IF asset.status \in BAD_STATUSES
    THEN LET counted == [result EXCEPT !.missing[asset.importance] = @ + 1]
         IN  IF asset.importance = "critical"
             THEN [counted EXCEPT !.reasons = Append(@, reasonFor(asset))]
             ELSE counted
    ELSE result

RECURSIVE countAssets(_, _, _)
countAssets(assets, i, result) ==
    IF i > Len(assets) THEN result
    ELSE countAssets(assets, i + 1, countAsset(result, assets[i]))

levelOf_optional_degrades(missing) ==
    IF missing.critical > 0 THEN "risk"
    ELSE IF missing.important > 0 \/ missing.optional > 0 THEN "incomplete"
    ELSE "healthy"

levelOf(missing) ==
    IF missing.critical > 0 THEN "risk"
    ELSE IF missing.important > 0 THEN "incomplete"
    ELSE "healthy"

deriveHealth(blog) ==
    LET result == countAssets(blog.assets, 1, emptyHealth)
    IN  [result EXCEPT !.level = levelOf(result.missing)]

----------------------------------------------------------------------------
(* lib/deriveSectionCompleteness.ts *)

isVerified_counts_skipped(a) == a.status \in {"verified", "connected", "skipped"}

isVerified_counts_created(a) == a.status \in {"verified", "connected", "created"}

isVerified(a) == a.status = "verified" \/ a.status = "connected"

inSection_any(a, category) == TRUE

inSection(a, category) == a.category = category

deriveSectionCompleteness(assets, category) ==
    LET inCat(a) == inSection(a, category)
        sectionAssets == SelectSeq(assets, inCat)
        verified == Len(SelectSeq(sectionAssets, isVerified))
    IN  [total |-> Len(sectionAssets), verified |-> verified]

----------------------------------------------------------------------------
(* lib/healthRank.ts *)

healthRank_default_first(level) ==
    CASE level = "risk" -> 0
      [] level = "incomplete" -> 1
      [] level = "healthy" -> 2
      [] OTHER -> -1

healthRank(level) ==
    CASE level = "risk" -> 0
      [] level = "incomplete" -> 1
      [] level = "healthy" -> 2
      [] OTHER -> 99

----------------------------------------------------------------------------
(* schema.ts: the factory functions *)

\* ASSET_TYPE_DEFINITIONS.find(def => def.type === type): the entry found,
\* as a sequence of one, or the empty sequence for undefined
getAssetTypeDefinition(type) ==
    IF type \in DOMAIN ASSET_TYPE_DEFINITIONS THEN <<ASSET_TYPE_DEFINITIONS[type]>> ELSE <<>>

\* { ...defaults, ...overrides }: a field of overrides replaces the default
spread(defaults, overrides) ==
    [ f \in DOMAIN defaults \cup DOMAIN overrides |->
        IF f \in DOMAIN overrides THEN overrides[f] ELSE defaults[f] ]

createAsset_without_definition(assetId, type, label, overrides) ==
    spread([ assetId    |-> assetId,
             type       |-> type,
             category   |-> "internal",
             importance |-> "optional",
             status     |-> "not_created",
             label      |-> label,
             evidence   |-> <<>> ],
           overrides)

createAsset(assetId, type, label, overrides) ==
    LET def == getAssetTypeDefinition(type)
    IN  spread([ assetId    |-> assetId,
                 type       |-> type,
                 category   |-> IF def # <<>> THEN def[1].category ELSE "internal",
                 importance |-> IF def # <<>> THEN def[1].defaultImportance ELSE "optional",
                 status     |-> "not_created",
                 label      |-> label,
                 evidence   |-> <<>> ],
               overrides)

isCompleteStatus_all_but_error(status) == status # "error"

isCompleteStatus(status) ==
    status = "verified" \/ status = "connected" \/ status = "skipped"

\* `${asset.label}`: the label, or "undefined" for an asset without one
labelText(asset) == IF "label" \in DOMAIN asset THEN asset.label ELSE "undefined"

emptyBlogHealth(blog) ==
    [ blogId            |-> blog.id,
      level             |-> "unknown",
      criticalComplete  |-> 0,
      criticalTotal     |-> 0,
      importantComplete |-> 0,
      importantTotal    |-> 0,
      optionalComplete  |-> 0,
      optionalTotal     |-> 0,
      errors            |-> <<>> ]

\* the body of "for (const asset of blog.assets)" in calculateHealth
tallyAsset(health, asset) ==
    LET complete == isCompleteStatus(asset.status)
        inc(n) == IF complete THEN n + 1 ELSE n
        tallied ==
            CASE asset.importance = "critical" ->
                   [health EXCEPT !.criticalTotal = @ + 1, !.criticalComplete = inc(@)]
              [] asset.importance = "important" ->
                   [health EXCEPT !.importantTotal = @ + 1, !.importantComplete = inc(@)]
              [] asset.importance = "optional" ->
                   [health EXCEPT !.optionalTotal = @ + 1, !.optionalComplete = inc(@)]
              [] OTHER -> health
    IN  IF asset.status = "error"
        THEN [tallied EXCEPT !.errors = Append(@, <<labelText(asset), ": error state">>)]
        ELSE tallied

RECURSIVE tallyAssets(_, _, _)
tallyAssets(assets, i, health) ==
    IF i > Len(assets) THEN health
    ELSE tallyAssets(assets, i + 1, tallyAsset(health, assets[i]))

schemaLevelOf(health) ==
    IF health.criticalTotal = 0 THEN "unknown"
    ELSE IF health.criticalComplete < health.criticalTotal THEN "critical"
    ELSE IF Len(health.errors) > 0 THEN "warning"
    ELSE IF health.importantComplete < health.importantTotal THEN "warning"
    ELSE "healthy"

calculateHealth(blog) ==
    LET health == tallyAssets(blog.assets, 1, emptyBlogHealth(blog))
    IN  [health EXCEPT !.level = schemaLevelOf(health)]

addEvidence_newest_first(asset, type, value, now) ==
    [asset EXCEPT !.evidence = <<[type |-> type, value |-> value, recordedAt |-> now]>> \o @]

\* now is new Date().toISOString() at the call
addEvidence(asset, type, value, now) ==
    [asset EXCEPT !.evidence = Append(@, [type |-> type, value |-> value, recordedAt |-> now])]

\* the asset object passed to addEvidence, after the call: the function
\* spreads it and its evidence array into new ones and writes to neither
inputAfterAddEvidence(asset, type, value, now) == asset

----------------------------------------------------------------------------
(* lib/buildSnapshot.ts *)

buildSnapshotRecord_external_as_distribution(blog) ==
    LET health == deriveHealth(blog)
    IN  [ id               |-> blog.id,
          domain           |-> blog.domain,
          displayName      |-> blog.displayName,
          status           |-> blog.status,
          health           |-> health.level,
          missingCritical  |-> health.missing.critical,
          missingImportant |-> health.missing.important,
          sections |->
            [ internal     |-> deriveSectionCompleteness(blog.assets, "internal"),
              external     |-> deriveSectionCompleteness(blog.assets, "external"),
              distribution |-> deriveSectionCompleteness(blog.assets, "external") ] ]

buildSnapshotRecord_internal_twice(blog) ==
    LET health == deriveHealth(blog)
    IN  [ id               |-> blog.id,
          domain           |-> blog.domain,
          displayName      |-> blog.displayName,
          status           |-> blog.status,
          health           |-> health.level,
          missingCritical  |-> health.missing.critical,
          missingImportant |-> health.missing.important,
          sections |->
            [ internal     |-> deriveSectionCompleteness(blog.assets, "internal"),
              external     |-> deriveSectionCompleteness(blog.assets, "internal"),
              distribution |-> deriveSectionCompleteness(blog.assets, "distribution") ] ]

\* the callback of blogs.map(...)
buildSnapshotRecord(blog) ==
    LET health == deriveHealth(blog)
    IN  [ id               |-> blog.id,
          domain           |-> blog.domain,
          displayName      |-> blog.displayName,
          status           |-> blog.status,
          health           |-> health.level,
          missingCritical  |-> health.missing.critical,
          missingImportant |-> health.missing.important,
          sections |->
            [ internal     |-> deriveSectionCompleteness(blog.assets, "internal"),
              external     |-> deriveSectionCompleteness(blog.assets, "external"),
              distribution |-> deriveSectionCompleteness(blog.assets, "distribution") ] ]

buildSnapshot_worst_first(bs) ==
    LET byRank(i, j) == healthRank(deriveHealth(bs[i]).level) <= healthRank(deriveHealth(bs[j]).level)
        order == CHOOSE f \in [DOMAIN bs -> DOMAIN bs] :
                    /\ \A i, j \in DOMAIN bs : i # j => f[i] # f[j]
                    /\ \A i, j \in DOMAIN bs : i < j => byRank(f[i], f[j])
    IN  [i \in DOMAIN bs |-> buildSnapshotRecord(bs[order[i]])]

buildSnapshot(bs) == [i \in DOMAIN bs |-> buildSnapshotRecord(bs[i])]

\* A text of the export is a sequence of tokens: the characters of domain
\* and displayName one by one, "," and the line feed as tokens of their own,
\* and every other piece (a header name, a status, a level, a digit, "/") as
\* one token, since none of those holds a comma or a line feed.
LF == "\n"

headers ==
    << "Domain", "Name", "Status", "Health", "Critical Missing", "Important Missing",
       "Internal Verified", "External Verified" >>

digitText(d) == << <<"0", "1", "2", "3", "4", "5", "6", "7", "8", "9">>[d + 1] >>

\* String(n) of a count
RECURSIVE numberText(_)
numberText(n) ==
    IF n < 10 THEN digitText(n) ELSE numberText(n \div 10) \o digitText(n % 10)

ratioText_total_first(c) == numberText(c.total) \o <<"/">> \o numberText(c.verified)

\* `${verified}/${total}`
ratioText(c) == numberText(c.verified) \o <<"/">> \o numberText(c.total)

cellText_quoted(value) ==
    IF \E k \in DOMAIN value : value[k] = "," THEN <<"\"">> \o value \o <<"\"">> ELSE value

\* what join(',') writes for a string cell: the string itself
cellText(value) == value

\* Array.prototype.join
RECURSIVE joinFrom(_, _, _)
joinFrom(texts, i, sep) ==
    IF i > Len(texts) THEN <<>>
    ELSE IF i = 1 THEN texts[1] \o joinFrom(texts, 2, sep)
    ELSE <<sep>> \o texts[i] \o joinFrom(texts, i + 1, sep)

join(texts, sep) == joinFrom(texts, 1, sep)

\* the array built for one snapshot by snapshots.map(...)
rowCells(snap) ==
    << cellText(snap.domain),
       cellText(snap.displayName),
       cellText(<<snap.status>>),
       cellText(<<snap.health>>),
       numberText(snap.missingCritical),
       numberText(snap.missingImportant),
       ratioText(snap.sections.internal),
       ratioText(snap.sections.external) >>

snapshotToCSV(snapshots) ==
    LET headerLine == join([k \in DOMAIN headers |-> <<headers[k]>>], ",")
        rows == [i \in DOMAIN snapshots |-> join(rowCells(snapshots[i]), ",")]
    IN  join(<<headerLine>> \o rows, LF)

----------------------------------------------------------------------------
(* ui/pages/BlogList.tsx: the filtered, sorted view (lines 61-78) *)

\* .map(blog => ({ blog, health: deriveHealth(blog) }))
withHealth(bs) == [i \in DOMAIN bs |-> [blog |-> bs[i], health |-> deriveHealth(bs[i])]]

passesFilters_case_sensitive(entry, sf, hf, q) ==
    IF sf # "all" /\ entry.blog.status # sf THEN FALSE
    ELSE IF hf # "all" /\ entry.health.level # hf THEN FALSE
    ELSE IF q # <<>> /\ ~includes(entry.blog.domain, q) THEN FALSE
    ELSE TRUE

\* the predicate of .filter(...); an empty domainQuery is falsy
passesFilters(entry, sf, hf, q) ==
    IF sf # "all" /\ entry.blog.status # sf THEN FALSE
    ELSE IF hf # "all" /\ entry.health.level # hf THEN FALSE
    ELSE IF q # <<>> /\ ~includes(toLowerCase(entry.blog.domain), toLowerCase(q)) THEN FALSE
    ELSE TRUE

compareEntries_by_rank_only(a, b) ==
    healthRank(a.health.level) - healthRank(b.health.level)

\* the comparator of .sort(...)
compareEntries(a, b) ==
    LET healthDiff == healthRank(a.health.level) - healthRank(b.health.level)
    IN  IF healthDiff # 0 THEN healthDiff
        ELSE localeCompare(a.blog.displayName, b.blog.displayName)

\* Array.prototype.sort is stable: x goes behind every entry that does not
\* compare greater than it
RECURSIVE insertSorted(_, _)
insertSorted(s, x) ==
    IF s = <<>> THEN <<x>>
    ELSE IF compareEntries(s[Len(s)], x) <= 0 THEN Append(s, x)
    ELSE Append(insertSorted(SubSeq(s, 1, Len(s) - 1), x), s[Len(s)])

RECURSIVE sortFrom(_, _, _)
sortFrom(s, i, sorted) ==
    IF i > Len(s) THEN sorted
    ELSE sortFrom(s, i + 1, insertSorted(sorted, s[i]))

sortEntries_skips_first(s) == sortFrom(s, 2, <<>>)

sortEntries_from_last(s) == sortFrom([i \in DOMAIN s |-> s[Len(s) + 1 - i]], 1, <<>>)

sortEntries(s) == sortFrom(s, 1, <<>>)

filterSort(bs, sf, hf, q) ==
    LET pass(entry) == passesFilters(entry, sf, hf, q)
    IN  sortEntries(SelectSeq(withHealth(bs), pass))

blogsAfterRender_sorted_in_place(bs, sf, hf, q) ==
    LET sorted == sortEntries(withHealth(bs))
    IN  [i \in DOMAIN bs |-> sorted[i].blog]

\* the array held in the blogs state after lines 61-78 ran on it: map and
\* filter return new arrays, sort reorders the array filter returned, and
\* the blog records are only read
blogsAfterRender(bs, sf, hf, q) == bs

\* the early returns of BlogList (lines 38-58): the list is rendered only then
listShown == ~loading /\ error = Null /\ Len(blogs) # 0

\* const blogsWithHealth, computed from the state on every render
blogsWithHealth == IF listShown THEN filterSort(blogs, statusFilter, healthFilter, domainQuery) ELSE <<>>

----------------------------------------------------------------------------
(* The catalogues and the user's inputs *)

Asset(type, importance, status) ==
    [ type       |-> type,
      category   |-> ASSET_TYPE_DEFINITIONS[type].category,
      importance |-> importance,
      status     |-> status ]

\* one asset type of each category
SampleTypes == {"github_repo", "google_analytics", "rss_feed"}

AssetUniverse == { Asset(t, imp, st) : t \in SampleTypes, imp \in AssetImportance, st \in AssetStatus }

Blog(id, displayName, domain, status, assets) ==
    [ id |-> id, displayName |-> displayName, domain |-> domain, status |-> status, assets |-> assets ]

\* one blog with every asset list: the inputs of the engine functions
EngineCatalogues ==
    { << Blog(1, <<"a">>, <<"a">>, "active", as) >> : as \in SeqsUpTo(AssetUniverse, MaxAssets) }

SampleNames == { <<"a">>, <<"B">> }

SampleDomains == { <<"a", "B">>, <<"b">> }

SampleBlogStatuses == { "active", "paused" }

SampleAssets ==
    { <<>>,
      << Asset("github_repo", "critical", "not_created") >>,
      << Asset("google_analytics", "important", "error") >> }

BlogBodies ==
    { [displayName |-> n, domain |-> d, status |-> st, assets |-> as] :
        n \in SampleNames, d \in SampleDomains, st \in SampleBlogStatuses, as \in SampleAssets }

\* ids are unique within a catalogue: the blog at position i has id i
withIds(bodies) ==
    [ i \in DOMAIN bodies |->
        Blog(i, bodies[i].displayName, bodies[i].domain, bodies[i].status, bodies[i].assets) ]

PageCatalogues == { withIds(bodies) : bodies \in SeqsUpTo(BlogBodies, MaxBlogs) }

StatusFilters == {"all"} \cup BlogStatus

HealthFilters == {"all"} \cup HealthLevel

SampleQueries == { <<>>, <<"A">>, <<"a", "b">> }

LoadErrors == { "Failed to load blogs: 404", "Unknown error" }

OtherLevels == { "warning", "critical", "unknown" }

NoCall == [fn |-> "none"]

\* checkResults is the empty sequence for null, else a sequence of the one
\* CheckResults object
NoResults == <<>>

\* run is the sequence of the runAllChecks calls in flight
NoRun == <<>>

\* the specifications that load once keep no list of loadData calls
NoLoads == <<>>

\* no caller is in an engine call
NoCalls == <<>>

\* no blog detail page is mounted
detailUnused == blogId = Null /\ checkResults = NoResults /\ checking = FALSE /\ run = NoRun

----------------------------------------------------------------------------
(* The blog list page: useBlogsData loads once on mount, then the user filters *)

Init ==
    /\ blogs = <<>>
    /\ loading = TRUE
    /\ error = Null
    /\ statusFilter = "all"
    /\ healthFilter = "all"
    /\ domainQuery = <<>>
    /\ ret = NoCall
    /\ detailUnused
    /\ loads = NoLoads
    /\ calls = NoCalls

\* loadData, fetch and parse succeeded: setBlogs(data.blogs), finally setLoading(false)
loadDataOk ==
    /\ loading
    /\ \E data \in PageCatalogues : blogs' = data
    /\ loading' = FALSE
    /\ UNCHANGED <<error, statusFilter, healthFilter, domainQuery, ret, detailVars, loads, calls>>

\* loadData, catch: setError(message), setBlogs([]), finally setLoading(false)
loadDataFailed ==
    /\ loading
    /\ \E msg \in LoadErrors : error' = msg
    /\ blogs' = <<>>
    /\ loading' = FALSE
    /\ UNCHANGED <<statusFilter, healthFilter, domainQuery, ret, detailVars, loads, calls>>

\* each handler sets its state and React renders BlogList again, which runs
\* lines 61-78 on the blogs array with the new filters
setStatusFilter ==
    /\ listShown
    /\ \E f \in StatusFilters : statusFilter' = f
    /\ blogs' = blogsAfterRender(blogs, statusFilter', healthFilter, domainQuery)
    /\ UNCHANGED <<loading, error, healthFilter, domainQuery, ret, detailVars, loads, calls>>

setHealthFilter ==
    /\ listShown
    /\ \E f \in HealthFilters : healthFilter' = f
    /\ blogs' = blogsAfterRender(blogs, statusFilter, healthFilter', domainQuery)
    /\ UNCHANGED <<loading, error, statusFilter, domainQuery, ret, detailVars, loads, calls>>

setDomainQuery ==
    /\ listShown
    /\ \E q \in SampleQueries : domainQuery' = q
    /\ blogs' = blogsAfterRender(blogs, statusFilter, healthFilter, domainQuery')
    /\ UNCHANGED <<loading, error, statusFilter, healthFilter, ret, detailVars, loads, calls>>

applyPreset ==
    /\ listShown
    /\ \E preset \in {"riskOnly", "activeOnly", "clear"} :
          /\ statusFilter' = IF preset = "activeOnly" THEN "active" ELSE "all"
          /\ healthFilter' = IF preset = "riskOnly" THEN "risk" ELSE "all"
          /\ domainQuery' = <<>>
    /\ blogs' = blogsAfterRender(blogs, statusFilter', healthFilter', domainQuery')
    /\ UNCHANGED <<loading, error, ret, detailVars, loads, calls>>

Next ==
    \/ loadDataOk
    \/ loadDataFailed
    \/ setStatusFilter
    \/ setHealthFilter
    \/ setDomainQuery
    \/ applyPreset

Spec == Init /\ [][Next]_vars

----------------------------------------------------------------------------
(* The engine functions called on one blog *)

InitEngine ==
    /\ blogs \in EngineCatalogues
    /\ loading = FALSE
    /\ error = Null
    /\ statusFilter = "all"
    /\ healthFilter = "all"
    /\ domainQuery = <<>>
    /\ ret = NoCall
    /\ detailUnused
    /\ loads = NoLoads
    /\ calls = NoCalls

callDeriveHealth ==
    /\ \E i \in Positions(blogs) :
          ret' = [fn |-> "deriveHealth", arg |-> blogs[i], val |-> deriveHealth(blogs[i])]
    /\ UNCHANGED <<blogs, loading, error, statusFilter, healthFilter, domainQuery, detailVars, loads, calls>>

callCalculateHealth ==
    /\ \E i \in Positions(blogs) :
          ret' = [fn |-> "calculateHealth", arg |-> blogs[i], val |-> calculateHealth(blogs[i])]
    /\ UNCHANGED <<blogs, loading, error, statusFilter, healthFilter, domainQuery, detailVars, loads, calls>>

callDeriveSectionCompleteness ==
    /\ \E i \in Positions(blogs), category \in AssetCategory :
          ret' = [ fn  |-> "deriveSectionCompleteness",
                   arg |-> [assets |-> blogs[i].assets, category |-> category],
                   val |-> deriveSectionCompleteness(blogs[i].assets, category) ]
    /\ UNCHANGED <<blogs, loading, error, statusFilter, healthFilter, domainQuery, detailVars, loads, calls>>

callHealthRank ==
    /\ \E level \in HealthLevel \cup OtherLevels :
          ret' = [fn |-> "healthRank", arg |-> level, val |-> healthRank(level)]
    /\ UNCHANGED <<blogs, loading, error, statusFilter, healthFilter, domainQuery, detailVars, loads, calls>>

NextEngine ==
    \/ callDeriveHealth
    \/ callCalculateHealth
    \/ callDeriveSectionCompleteness
    \/ callHealthRank

SpecEngine == InitEngine /\ [][NextEngine]_vars

----------------------------------------------------------------------------
(* buildSnapshot and snapshotToCSV called on a catalogue *)

ExportNames == { <<"a">>, <<"a", ",", "b">>, <<"a", LF>> }

ExportDomains == { <<"a">>, <<"b", ",">> }

ExportBlogStatuses == { "active", "archived" }

ExportAssets ==
    { <<>>,
      << Asset("github_repo", "critical", "not_created"), Asset("google_analytics", "important", "verified") >>,
      << Asset("rss_feed", "optional", "skipped"), Asset("google_analytics", "important", "error") >> }

ExportBodies ==
    { [displayName |-> n, domain |-> d, status |-> st, assets |-> as] :
        n \in ExportNames, d \in ExportDomains, st \in ExportBlogStatuses, as \in ExportAssets }

ExportCatalogues == { withIds(bodies) : bodies \in SeqsUpTo(ExportBodies, MaxBlogs) }

InitSnapshot ==
    /\ blogs \in ExportCatalogues
    /\ loading = FALSE
    /\ error = Null
    /\ statusFilter = "all"
    /\ healthFilter = "all"
    /\ domainQuery = <<>>
    /\ ret = NoCall
    /\ detailUnused
    /\ loads = NoLoads
    /\ calls = NoCalls

callBuildSnapshot ==
    /\ ret' = [fn |-> "buildSnapshot", arg |-> blogs, val |-> buildSnapshot(blogs)]
    /\ UNCHANGED <<blogs, loading, error, filterVars, detailVars, loads, calls>>

callSnapshotToCSV ==
    /\ ret' = [ fn  |-> "snapshotToCSV",
                arg |-> buildSnapshot(blogs),
                val |-> snapshotToCSV(buildSnapshot(blogs)) ]
    /\ UNCHANGED <<blogs, loading, error, filterVars, detailVars, loads, calls>>

NextSnapshot ==
    \/ callBuildSnapshot
    \/ callSnapshotToCSV

SpecSnapshot == InitSnapshot /\ [][NextSnapshot]_vars

----------------------------------------------------------------------------
(* The export buttons of the blog list page, under any filter setting *)

exportSource_shown(bs, view) == [i \in DOMAIN view |-> view[i].blog]

\* the collection that exportJSON and exportCSV hand to buildSnapshot: the
\* blogs of useBlogsData, not the blogsWithHealth of the view
exportSource(bs, view) == bs

\* a healthy, an at-risk and an incomplete blog, of different statuses
ListedBodies ==
    { [displayName |-> <<"B">>, domain |-> <<"b">>, status |-> "active", assets |-> <<>>],
      [displayName |-> <<"a">>, domain |-> <<"a", "B">>, status |-> "paused",
       assets |-> << Asset("github_repo", "critical", "not_created") >>],
      [displayName |-> <<"a">>, domain |-> <<"a">>, status |-> "active",
       assets |-> << Asset("google_analytics", "important", "error") >>] }

ListedCatalogues == { withIds(bodies) : bodies \in SeqsUpTo(ListedBodies, MaxBlogs) \ {<<>>} }

\* the list page after a load, with the filters set by the user
InitExport ==
    /\ blogs \in ListedCatalogues
    /\ loading = FALSE
    /\ error = Null
    /\ statusFilter \in StatusFilters
    /\ healthFilter \in HealthFilters
    /\ domainQuery \in SampleQueries
    /\ ret = NoCall
    /\ detailUnused
    /\ loads = NoLoads
    /\ calls = NoCalls

\* the snapshot is what exportJSON hands to JSON.stringify
exportJSON ==
    /\ listShown
    /\ ret' = [ fn       |-> "exportJSON",
                snapshot |-> buildSnapshot(exportSource(blogs, blogsWithHealth)) ]
    /\ UNCHANGED <<blogs, loading, error, filterVars, detailVars, loads, calls>>

exportCSV ==
    /\ listShown
    /\ LET snapshot == buildSnapshot(exportSource(blogs, blogsWithHealth))
       IN  ret' = [fn |-> "exportCSV", snapshot |-> snapshot, csv |-> snapshotToCSV(snapshot)]
    /\ UNCHANGED <<blogs, loading, error, filterVars, detailVars, loads, calls>>

NextExport ==
    \/ exportJSON
    \/ exportCSV

SpecExport == InitExport /\ [][NextExport]_vars

----------------------------------------------------------------------------
(* createAsset and addEvidence called by a caller that holds one asset *)

Timestamps == {"2026-01-01T00:00:00.000Z", "2026-01-02T00:00:00.000Z"}

EvidenceValues == {"checked by hand", "https://example.org/proof"}

EvidenceUniverse ==
    [type : EvidenceType, value : EvidenceValues, recordedAt : Timestamps]

NoOverrides == <<>>

SampleOverrides ==
    { NoOverrides,
      [status |-> "verified"],
      [url |-> "https://example.org"],
      [category |-> "distribution"],
      [importance |-> "important"],
      [status |-> "skipped", category |-> "external", importance |-> "critical"] }

\* one blog holding one asset made by createAsset
SchemaCatalogues ==
    { << Blog(1, <<"a">>, <<"a">>, "active",
              << createAsset("asset-1", t, "label", [status |-> st, evidence |-> ev]) >>) >> :
        t \in SampleTypes, st \in {"created"}, ev \in SeqsUpTo(EvidenceUniverse, MaxEvidence) }

InitSchema ==
    /\ blogs \in SchemaCatalogues
    /\ loading = FALSE
    /\ error = Null
    /\ statusFilter = "all"
    /\ healthFilter = "all"
    /\ domainQuery = <<>>
    /\ ret = NoCall
    /\ detailUnused
    /\ loads = NoLoads
    /\ calls = NoCalls

callCreateAsset ==
    /\ \E type \in AssetType, overrides \in SampleOverrides :
          ret' = [ fn  |-> "createAsset",
                   arg |-> [assetId |-> "asset-2", type |-> type, label |-> "label", overrides |-> overrides],
                   val |-> createAsset("asset-2", type, "label", overrides) ]
    /\ UNCHANGED <<blogs, loading, error, filterVars, detailVars, loads, calls>>

callAddEvidence ==
    /\ \E type \in EvidenceType, value \in EvidenceValues, now \in Timestamps :
          LET asset == blogs[1].assets[1] IN
          /\ ret' = [ fn  |-> "addEvidence",
                      arg |-> [asset |-> asset, type |-> type, value |-> value],
                      val |-> addEvidence(asset, type, value, now) ]
          /\ blogs' = [blogs EXCEPT ![1].assets = <<inputAfterAddEvidence(asset, type, value, now)>>]
    /\ UNCHANGED <<loading, error, filterVars, detailVars, loads, calls>>

NextSchema ==
    \/ callCreateAsset
    \/ callAddEvidence

SpecSchema == InitSchema /\ [][NextSchema]_vars

----------------------------------------------------------------------------
(* lib/capabilityChecks.ts *)

CapabilityCheckResult(detected, checkedAt, notes) ==
    [detected |-> detected, checkedAt |-> checkedAt, notes |-> notes]

\* fetch(url, HEAD) resolved (responded) or rejected
checkProductionSite(url, responded, now) ==
    IF responded
    THEN CapabilityCheckResult(TRUE, now, <<"Site responded">>)
    ELSE CapabilityCheckResult(FALSE, now, <<"Site unreachable or blocked by CORS">>)

checkGoogleSearchConsole(domain, now) ==
    CapabilityCheckResult(FALSE, now, <<"Manual verification required for ">> \o domain)

checkGoogleAnalytics(domain, now) ==
    CapabilityCheckResult(FALSE, now, <<"Manual verification required for ">> \o domain)

\* a JavaScript string used as a condition: undefined and "" are false
truthy(text) == text # Null /\ text # ""

\* now[1..3] are the times at which the three results are made
runAllChecks(domain, productionUrl, responded, now) ==
    [ productionSite      |-> IF truthy(productionUrl)
                              THEN checkProductionSite(productionUrl, responded, now[1])
                              ELSE CapabilityCheckResult(FALSE, now[1], <<"No production URL configured">>),
      googleSearchConsole |-> checkGoogleSearchConsole(domain, now[2]),
      googleAnalytics     |-> checkGoogleAnalytics(domain, now[3]) ]

\* the promise that runAllChecks returns, once settled: the three promises
\* given to Promise.all all fulfil, since checkProductionSite catches the
\* rejection of its fetch
runAllChecksPromise(domain, productionUrl, responded, now) ==
    [state |-> "fulfilled", value |-> runAllChecks(domain, productionUrl, responded, now)]

----------------------------------------------------------------------------
(* ui/pages/BlogDetail.tsx *)

\* blogs.find(b => b.id === blogId): the blog found, as a sequence of one,
\* or the empty sequence for undefined
findBlog(bs, id) ==
    LET isIt(b) == b.id = id
        hits == SelectSeq(bs, isIt)
    IN  IF hits = <<>> THEN <<>> ELSE <<hits[1]>>

\* blog.assets.find(a => a.type === type)?.url, Null for undefined
getAssetUrl(blog, type) ==
    LET ofType(a) == a.type = type
        hits == SelectSeq(blog.assets, ofType)
    IN  IF hits = <<>> THEN Null
        ELSE IF "url" \in DOMAIN hits[1] THEN hits[1].url ELSE Null

checkButton_always_enabled(isChecking) == [disabled |-> FALSE]

\* <button onClick={handleRunChecks} disabled={checking}>
checkButton(isChecking) == [disabled |-> isChecking]

BlogDetailView_waits_for_checks(bs, isLoading, err, id, results, isChecking) ==
    IF isLoading \/ isChecking THEN [kind |-> "loading"]
    ELSE IF err # Null THEN [kind |-> "error", message |-> err]
    ELSE IF findBlog(bs, id) = <<>> THEN [kind |-> "not_found", blogId |-> id]
    ELSE LET blog == findBlog(bs, id)[1]
         IN  [ kind          |-> "detail",
               health        |-> deriveHealth(blog),
               assets        |-> blog.assets,
               productionUrl |-> getAssetUrl(blog, "production_site"),
               checkButton   |-> checkButton(isChecking),
               checkResults  |-> results ]

\* what BlogDetail returns: one of the three early returns, or the detail
\* page with the health summary, the asset tables, the check button and,
\* once there are any, the check results
BlogDetailView(bs, isLoading, err, id, results, isChecking) ==
    IF isLoading THEN [kind |-> "loading"]
    ELSE IF err # Null THEN [kind |-> "error", message |-> err]
    ELSE IF findBlog(bs, id) = <<>> THEN [kind |-> "not_found", blogId |-> id]
    ELSE LET blog == findBlog(bs, id)[1]
         IN  [ kind          |-> "detail",
               health        |-> deriveHealth(blog),
               assets        |-> blog.assets,
               productionUrl |-> getAssetUrl(blog, "production_site"),
               checkButton   |-> checkButton(isChecking),
               checkResults  |-> results ]

BlogDetail == BlogDetailView(blogs, loading, error, blogId, checkResults, checking)

blogsAfterChecks_marks_verified(bs, id, results) ==
    [ i \in DOMAIN bs |->
        IF bs[i].id = id /\ results.productionSite.detected
        THEN LET assets == bs[i].assets
             IN  [bs[i] EXCEPT !.assets =
                    [ k \in DOMAIN assets |->
                        IF assets[k].type = "production_site"
                        THEN [assets[k] EXCEPT !.status = "verified"]
                        ELSE assets[k] ]]
        ELSE bs[i] ]

\* the blogs of useBlogsData after handleRunChecks has stored the results:
\* it calls setCheckResults and setChecking only
blogsAfterChecks(bs, id, results) == bs

----------------------------------------------------------------------------
(* the blog detail page of one blog id *)

DetailAssets ==
    { <<>>,
      << createAsset("asset-1", "production_site", "Production", [url |-> "https://a.example"]) >>,
      << createAsset("asset-1", "production_site", "Production", [status |-> "verified", url |-> "https://a.example"]) >>,
      << createAsset("asset-1", "production_site", "Production", [url |-> ""]),
         createAsset("asset-2", "google_analytics", "Analytics", [status |-> "error"]) >>,
      << createAsset("asset-1", "google_search_console", "Search Console", NoOverrides),
         createAsset("asset-2", "production_site", "Production", NoOverrides) >> }

DetailBodies ==
    { [displayName |-> <<"a">>, domain |-> <<"a">>, status |-> "active", assets |-> as] : as \in DetailAssets }

DetailCatalogues == { withIds(bodies) : bodies \in SeqsUpTo(DetailBodies, MaxBlogs) }

\* the :blogId of the route: the id of a blog that may be loaded, or of none
BlogIds == 1..(MaxBlogs + 1)

InitDetail ==
    /\ blogs = <<>>
    /\ loading = TRUE
    /\ error = Null
    /\ statusFilter = "all"
    /\ healthFilter = "all"
    /\ domainQuery = <<>>
    /\ ret = NoCall
    /\ blogId \in BlogIds
    /\ checkResults = NoResults
    /\ checking = FALSE
    /\ run = NoRun
    /\ loads = NoLoads
    /\ calls = NoCalls

\* loadData, try: setBlogs(data.blogs), finally setLoading(false)
loadDetailDataOk ==
    /\ loading
    /\ \E data \in DetailCatalogues : blogs' = data
    /\ loading' = FALSE
    /\ UNCHANGED <<error, filterVars, ret, detailVars, loads, calls>>

\* the click on the check button: setChecking(true) and the call of
\* runAllChecks(blog.domain, productionUrl), which is then in flight
handleRunChecks ==
    /\ BlogDetail.kind = "detail"
    /\ ~BlogDetail.checkButton.disabled
    /\ checking' = TRUE
    /\ run' = Append(run, [domain |-> findBlog(blogs, blogId)[1].domain, productionUrl |-> BlogDetail.productionUrl])
    /\ UNCHANGED <<blogs, loading, error, filterVars, ret, blogId, checkResults, loads, calls>>

\* the promise of a runAllChecks call settles: when it fulfils,
\* setCheckResults(results); in the finally, setChecking(false)
checksResolve ==
    /\ \E i \in DOMAIN run, responded \in BOOLEAN, now \in [1..3 -> Timestamps] :
          LET promise == runAllChecksPromise(run[i].domain, run[i].productionUrl, responded, now) IN
          /\ IF promise.state = "fulfilled"
             THEN /\ checkResults' = <<promise.value>>
                  /\ blogs' = blogsAfterChecks(blogs, blogId, promise.value)
             ELSE UNCHANGED <<checkResults, blogs>>
          /\ ret' = [ fn  |-> "runAllChecks",
                      arg |-> [domain |-> run[i].domain, productionUrl |-> run[i].productionUrl,
                               responded |-> responded],
                      val |-> promise ]
          /\ run' = Remove(run, i)
    /\ checking' = FALSE
    /\ UNCHANGED <<loading, error, filterVars, blogId, loads, calls>>

NextDetail ==
    \/ loadDetailDataOk
    \/ loadDataFailed
    \/ handleRunChecks
    \/ checksResolve

SpecDetail == InitDetail /\ [][NextDetail]_vars

----------------------------------------------------------------------------
(* storage/useBlogsData.ts: loadData called on mount and again by reload *)

\* loads[k] is the k-th call of loadData: in flight, or settled with the
\* collection it fetched or the message it caught; overlapped tells whether
\* another call was in flight at some time while this one was
inFlight(k) == k \in DOMAIN loads /\ loads[k].state = "in_flight"

someInFlight == \E k \in DOMAIN loads : inFlight(k)

blogsAfterFailure_keeps(bs) == bs

\* catch: setBlogs([])
blogsAfterFailure(bs) == <<>>

loadingAfterSettled_on_success_only(outcome) == outcome # "ok"

\* finally: setLoading(false), whatever the outcome
loadingAfterSettled(outcome) == FALSE

\* what a fetch of /data/blogs.json can bring
FetchedCatalogues ==
    { <<>>,
      << Blog(1, <<"a">>, <<"a">>, "active", <<>>) >>,
      << Blog(1, <<"B">>, <<"b">>, "paused", << Asset("github_repo", "critical", "not_created") >>) >> }

InitHook ==
    /\ blogs = <<>>
    /\ loading = TRUE
    /\ error = Null
    /\ statusFilter = "all"
    /\ healthFilter = "all"
    /\ domainQuery = <<>>
    /\ ret = NoCall
    /\ detailUnused
    /\ loads = NoLoads
    /\ calls = NoCalls

\* loadData up to its first await: setLoading(true), setError(null), fetch
loadDataStarts ==
    /\ Len(loads) < MaxLoads
    /\ loading' = TRUE
    /\ error' = Null
    /\ loads' = Append([k \in DOMAIN loads |->
                           IF inFlight(k) THEN [loads[k] EXCEPT !.overlapped = TRUE] ELSE loads[k]],
                       [state |-> "in_flight", overlapped |-> someInFlight, data |-> <<>>, message |-> Null])
    /\ UNCHANGED <<blogs, filterVars, ret, detailVars, calls>>

\* useEffect(() => { loadData() }, [])
mountEffect ==
    /\ loads = NoLoads
    /\ loadDataStarts

\* reload: loadData called by the component that uses the hook
reload ==
    /\ loads # NoLoads
    /\ loadDataStarts

\* fetch and response.json() resolved: setBlogs(data.blogs), setLoading(false);
\* React 18 applies the set-state calls that follow an await in one render
loadResolves(k) ==
    /\ inFlight(k)
    /\ \E data \in FetchedCatalogues :
          /\ blogs' = data
          /\ loads' = [loads EXCEPT ![k].state = "ok", ![k].data = data]
    /\ loading' = loadingAfterSettled("ok")
    /\ UNCHANGED <<error, filterVars, ret, detailVars, calls>>

\* the response was not ok, or fetch or response.json() rejected:
\* setError(message), setBlogs([]), setLoading(false)
loadRejects(k) ==
    /\ inFlight(k)
    /\ \E msg \in LoadErrors :
          /\ error' = msg
          /\ loads' = [loads EXCEPT ![k].state = "failed", ![k].message = msg]
    /\ blogs' = blogsAfterFailure(blogs)
    /\ loading' = loadingAfterSettled("failed")
    /\ UNCHANGED <<filterVars, ret, detailVars, calls>>

NextHook ==
    \/ mountEffect
    \/ reload
    \/ \E k \in 1..MaxLoads : loadResolves(k)
    \/ \E k \in 1..MaxLoads : loadRejects(k)

SpecHook == InitHook /\ [][NextHook]_vars

\* every fetch settles: the premise of the claims about ending loads
SpecHookSettling ==
    /\ SpecHook
    /\ \A k \in 1..MaxLoads : WF_vars(loadResolves(k) \/ loadRejects(k))

----------------------------------------------------------------------------
(* The engine functions called by several callers on one collection.  Each  *)
(* call is taken loop by loop, with its local variables in calls[c], so the *)
(* calls of different callers interleave more finely than one JavaScript    *)
(* thread lets them.                                                        *)

Callers == {"c1", "c2"}

Idle == [fn |-> "none", done |-> TRUE]

inCall(c) == ~calls[c].done

\* the array that the loop of a call runs over
loopedOver(call) ==
    CASE call.fn = "deriveHealth"              -> blogs[call.blog].assets
      [] call.fn = "deriveSectionCompleteness" -> blogs[call.blog].assets
      [] call.fn = "buildSnapshot"             -> blogs
      [] call.fn = "snapshotToCSV"             -> call.arg

\* the local variable of a call after the loop body has run for item
loopBody(call, item) ==
    CASE call.fn = "deriveHealth"              -> countAsset(call.acc, item)
      [] call.fn = "deriveSectionCompleteness" ->
            IF inSection(item, call.category) THEN Append(call.acc, item) ELSE call.acc
      [] call.fn = "buildSnapshot"             -> Append(call.acc, buildSnapshotRecord(item))
      [] call.fn = "snapshotToCSV"             -> Append(call.acc, join(rowCells(item), ","))

\* the value returned after the loop
returned(call) ==
    CASE call.fn = "deriveHealth"              -> [call.acc EXCEPT !.level = levelOf(call.acc.missing)]
      [] call.fn = "deriveSectionCompleteness" ->
            [total |-> Len(call.acc), verified |-> Len(SelectSeq(call.acc, isVerified))]
      [] call.fn = "buildSnapshot"             -> call.acc
      [] call.fn = "snapshotToCSV"             ->
            join(<<join([k \in DOMAIN headers |-> <<headers[k]>>], ",")>> \o call.acc, LF)

collectionAfterStep_takes_asset(bs, call) ==
    IF call.fn = "deriveHealth"
    THEN [bs EXCEPT ![call.blog].assets = SubSeq(@, 2, Len(@))]
    ELSE bs

\* the collection after a loop body of a call has run: no loop body writes
\* to a blog, to an asset or to the arrays that hold them
collectionAfterStep(bs, call) == bs

CallerBodies ==
    { [displayName |-> <<"a">>, domain |-> <<"a">>, status |-> "active",
       assets |-> << Asset("github_repo", "critical", "not_created"),
                     Asset("google_analytics", "important", "verified") >>],
      [displayName |-> <<"B">>, domain |-> <<"b">>, status |-> "paused",
       assets |-> << Asset("google_analytics", "important", "error") >>] }

CallerCatalogues == { withIds(bodies) : bodies \in SeqsUpTo(CallerBodies, MaxBlogs) \ {<<>>} }

InitCallers ==
    /\ blogs \in CallerCatalogues
    /\ loading = FALSE
    /\ error = Null
    /\ statusFilter = "all"
    /\ healthFilter = "all"
    /\ domainQuery = <<>>
    /\ ret = NoCall
    /\ detailUnused
    /\ loads = NoLoads
    /\ calls = [c \in Callers |-> Idle]

\* a caller enters a call: input is the collection as it is at the call
enter(c, call) ==
    /\ ~inCall(c)
    /\ calls' = [calls EXCEPT ![c] = call]
    /\ UNCHANGED <<blogs, loading, error, filterVars, ret, detailVars, loads>>

enterDeriveHealth(c) ==
    \E b \in Positions(blogs) :
        enter(c, [fn |-> "deriveHealth", blog |-> b, input |-> blogs,
                  i |-> 1, acc |-> emptyHealth, done |-> FALSE])

enterDeriveSectionCompleteness(c) ==
    \E b \in Positions(blogs), category \in AssetCategory :
        enter(c, [fn |-> "deriveSectionCompleteness", blog |-> b, category |-> category,
                  input |-> blogs, i |-> 1, acc |-> <<>>, done |-> FALSE])

enterBuildSnapshot(c) ==
    enter(c, [fn |-> "buildSnapshot", input |-> blogs, i |-> 1, acc |-> <<>>, done |-> FALSE])

\* as exportCSV calls it: on the snapshot of the collection
enterSnapshotToCSV(c) ==
    enter(c, [fn |-> "snapshotToCSV", arg |-> buildSnapshot(blogs), input |-> blogs,
              i |-> 1, acc |-> <<>>, done |-> FALSE])

\* one turn of the loop of the call that c is in
loopStep(c) ==
    /\ inCall(c)
    /\ calls[c].i <= Len(loopedOver(calls[c]))
    /\ calls' = [calls EXCEPT ![c].acc = loopBody(calls[c], loopedOver(calls[c])[calls[c].i]),
                              ![c].i = @ + 1]
    /\ blogs' = collectionAfterStep(blogs, calls[c])
    /\ UNCHANGED <<loading, error, filterVars, ret, detailVars, loads>>

\* the loop is over: the call returns
callReturns(c) ==
    /\ inCall(c)
    /\ calls[c].i > Len(loopedOver(calls[c]))
    /\ calls' = [calls EXCEPT ![c] = [fn |-> calls[c].fn, call |-> calls[c],
                                      val |-> returned(calls[c]), done |-> TRUE]]
    /\ UNCHANGED <<blogs, loading, error, filterVars, ret, detailVars, loads>>

NextCallers ==
    \E c \in Callers :
        \/ enterDeriveHealth(c)
        \/ enterDeriveSectionCompleteness(c)
        \/ enterBuildSnapshot(c)
        \/ enterSnapshotToCSV(c)
        \/ loopStep(c)
        \/ callReturns(c)

SpecCallers == InitCallers /\ [][NextCallers]_vars

----------------------------------------------------------------------------
(* Claims about deriveHealth (SpecEngine) *)

healthReturned == ret.fn = "deriveHealth"

countOf(assets, pred(_)) == Cardinality({ i \in Positions(assets) : pred(assets[i]) })

\* C1: the level returned by deriveHealth is 'risk' exactly when
\* missing.critical > 0; with missing.critical = 0 it is 'incomplete' exactly
\* when missing.important > 0 and 'healthy' otherwise; the optional count
\* plays no part.
C1_LevelFromCriticalAndImportant ==
    healthReturned =>
        LET h == ret.val IN
        /\ (h.level = "risk") <=> (h.missing.critical > 0)
        /\ h.missing.critical = 0 =>
              /\ (h.level = "incomplete") <=> (h.missing.important > 0)
              /\ (h.missing.important = 0) => (h.level = "healthy")

\* a blog whose only missing assets are optional ones has been classified
C1_Witness ==
    /\ healthReturned
    /\ ret.val.missing.optional > 0
    /\ ret.val.missing.critical = 0
    /\ ret.val.missing.important = 0
    /\ ret.val.level = "healthy"

\* C2: for every tier t, missing[t] is the number of assets of the blog with
\* importance t whose status is 'not_created' or 'error'; the other four
\* statuses add nothing.
C2_MissingCounts ==
    healthReturned =>
        \A t \in AssetImportance :
            LET missingIn(a) == a.importance = t /\ a.status \in {"not_created", "error"}
            IN  ret.val.missing[t] = countOf(ret.arg.assets, missingIn)

\* a blog with a missing asset next to an asset in one of the four other statuses
C2_Witness ==
    /\ healthReturned
    /\ \E t \in AssetImportance : ret.val.missing[t] = 1
    /\ \E i \in Positions(ret.arg.assets) :
          ret.arg.assets[i].status \in {"created", "connected", "verified", "skipped"}

\* C3: a skipped asset is neutral: taking it out of the blog changes no
\* missing-count of deriveHealth, and for its own category it lowers the
\* total of deriveSectionCompleteness by one and leaves verified as it is.
C3_SkippedIsNeutral ==
    /\ healthReturned =>
          \A i \in Positions(ret.arg.assets) :
              ret.arg.assets[i].status = "skipped" =>
                  ret.val.missing =
                      deriveHealth([ret.arg EXCEPT !.assets = Remove(@, i)]).missing
    /\ ret.fn = "deriveSectionCompleteness" =>
          \A i \in Positions(ret.arg.assets) :
              (ret.arg.assets[i].status = "skipped"
                  /\ ret.arg.assets[i].category = ret.arg.category) =>
                  LET without == deriveSectionCompleteness(Remove(ret.arg.assets, i), ret.arg.category)
                  IN  /\ ret.val.total = without.total + 1
                      /\ ret.val.verified = without.verified

\* the completeness of a category that holds a skipped asset and a verified one
C3_Witness ==
    /\ ret.fn = "deriveSectionCompleteness"
    /\ \E i, j \in Positions(ret.arg.assets) :
          /\ ret.arg.assets[i].status = "skipped"
          /\ ret.arg.assets[i].category = ret.arg.category
          /\ ret.arg.assets[j].status = "verified"
          /\ ret.arg.assets[j].category = ret.arg.category
    /\ ret.val.total = 2
    /\ ret.val.verified = 1

\* C4: reasons holds one entry per critical asset counted as missing, in the
\* order of blog.assets, each naming that asset's type; its length is
\* missing.critical.
C4_ReasonsPerCriticalMissing ==
    healthReturned =>
        LET criticalMissing(a) == a.importance = "critical" /\ a.status \in {"not_created", "error"}
            expected == SelectSeq(ret.arg.assets, criticalMissing)
        IN  /\ Len(ret.val.reasons) = Len(expected)
            /\ Len(ret.val.reasons) = ret.val.missing.critical
            /\ \A k \in Positions(expected) : ret.val.reasons[k][2] = expected[k].type

\* two critical assets of different types are missing
C4_Witness ==
    /\ healthReturned
    /\ Len(ret.val.reasons) = 2
    /\ ret.val.reasons[1][2] # ret.val.reasons[2][2]

----------------------------------------------------------------------------
(* Claims about deriveSectionCompleteness (SpecEngine) *)

completenessReturned == ret.fn = "deriveSectionCompleteness"

\* C5: total is the number of assets whose category is the one asked for,
\* whatever their status.
C5_TotalCountsCategory ==
    completenessReturned =>
        LET ofCategory(a) == a.category = ret.arg.category
        IN  ret.val.total = countOf(ret.arg.assets, ofCategory)

\* a category with an asset that is neither verified nor connected, next to
\* an asset of another category
C5_Witness ==
    /\ completenessReturned
    /\ ret.val.total = 1
    /\ Len(ret.arg.assets) = 2
    /\ \E i \in Positions(ret.arg.assets) :
          /\ ret.arg.assets[i].category = ret.arg.category
          /\ ret.arg.assets[i].status = "error"

\* C6: verified is the number of assets of the category whose status is
\* 'verified' or 'connected', so 0 <= verified <= total.
C6_VerifiedCountsVerifiedOrConnected ==
    completenessReturned =>
        LET verifiedIn(a) == a.category = ret.arg.category /\ a.status \in {"verified", "connected"}
        IN  /\ ret.val.verified = countOf(ret.arg.assets, verifiedIn)
            /\ 0 <= ret.val.verified
            /\ ret.val.verified <= ret.val.total

\* a category with a connected asset and a created one
C6_Witness ==
    /\ completenessReturned
    /\ ret.val.verified = 1
    /\ ret.val.total = 2
    /\ \E i, j \in Positions(ret.arg.assets) :
          /\ ret.arg.assets[i].status = "connected"
          /\ ret.arg.assets[j].status = "created"

----------------------------------------------------------------------------
(* Claims about healthRank (SpecEngine) *)

\* the order the ranks are to respect: risk, incomplete, healthy, anything else
severityPlace(level) ==
    CASE level = "risk" -> 1
      [] level = "incomplete" -> 2
      [] level = "healthy" -> 3
      [] OTHER -> 4

\* C7: the rank returned for a level is strictly below the rank of every
\* level that comes later in risk, incomplete, healthy, and the rank of a
\* value outside the three levels is strictly above the ranks of all three.
C7_RankOrder ==
    ret.fn = "healthRank" =>
        \A other \in HealthLevel :
            /\ severityPlace(ret.arg) < severityPlace(other) => ret.val < healthRank(other)
            /\ severityPlace(ret.arg) > severityPlace(other) => ret.val > healthRank(other)

\* a value outside the three levels has been ranked
C7_Witness ==
    /\ ret.fn = "healthRank"
    /\ ret.arg \notin HealthLevel
    /\ ret.val > 2

----------------------------------------------------------------------------
(* Claims about the BlogList filtered view (Spec) *)

shown(view, b) == \E k \in Positions(view) : view[k].blog = b

sameLetter(c, d) == c = d \/ {c, d} = {"a", "A"} \/ {c, d} = {"b", "B"}

containsIgnoringCase(s, q) ==
    \E off \in 0..(Len(s) - Len(q)) : \A j \in Positions(q) : sameLetter(s[off + j], q[j])

\* C8: a blog of the collection is in the filtered view exactly when
\* (statusFilter = 'all' or its status is statusFilter) and (healthFilter =
\* 'all' or its derived level is healthFilter) and (domainQuery is empty or
\* its domain contains domainQuery, case ignored).
C8_FilterInclusion ==
    listShown =>
        LET view == blogsWithHealth IN
        \A i \in Positions(blogs) :
            shown(view, blogs[i]) <=>
                /\ statusFilter = "all" \/ blogs[i].status = statusFilter
                /\ healthFilter = "all" \/ deriveHealth(blogs[i]).level = healthFilter
                /\ domainQuery = <<>> \/ containsIgnoringCase(blogs[i].domain, domainQuery)

\* all three filters are set, the query matches a domain only when case is
\* ignored, and one of two blogs is shown
C8_Witness ==
    /\ listShown
    /\ statusFilter = "active"
    /\ healthFilter = "risk"
    /\ domainQuery = <<"a", "b">>
    /\ Len(blogs) = 2
    /\ Len(blogsWithHealth) = 1
    /\ blogsWithHealth[1].blog.domain = <<"a", "B">>

\* C9: of two entries of the view the earlier one has the worse health
\* level (risk before incomplete before healthy), or both have the same
\* level and the earlier displayName does not compare greater than the later.
C9_ViewOrder ==
    listShown =>
        LET view == blogsWithHealth IN
        \A k1, k2 \in Positions(view) :
            k1 < k2 =>
                \/ severityPlace(view[k1].health.level) < severityPlace(view[k2].health.level)
                \/ /\ view[k1].health.level = view[k2].health.level
                   /\ localeCompare(view[k1].blog.displayName, view[k2].blog.displayName) <= 0

\* two blogs of the same level are shown in the opposite of their catalogue
\* order, because of their names
C9_Witness ==
    /\ listShown
    /\ Len(blogsWithHealth) = 2
    /\ blogsWithHealth[1].blog = blogs[2]
    /\ blogsWithHealth[1].health.level = blogsWithHealth[2].health.level
    /\ blogsWithHealth[1].blog.displayName # blogsWithHealth[2].blog.displayName

\* C10: the view only selects and reorders: every blog of the view is a blog
\* of the collection, no blog of the collection is in the view twice, the
\* health next to a blog is deriveHealth of that blog, and with both filters
\* 'all' and an empty query the view is a permutation of the collection.
C10_SelectsAndReorders ==
    listShown =>
        LET view == blogsWithHealth IN
        /\ \A k \in Positions(view) :
              /\ \E i \in Positions(blogs) : view[k].blog = blogs[i]
              /\ view[k].health = deriveHealth(view[k].blog)
        /\ \A i \in Positions(blogs) :
              Cardinality({ k \in Positions(view) : view[k].blog = blogs[i] }) <= 1
        /\ (statusFilter = "all" /\ healthFilter = "all" /\ domainQuery = <<>>) =>
              /\ Len(view) = Len(blogs)
              /\ \A i \in Positions(blogs) : shown(view, blogs[i])

\* without filters the whole collection is shown, reordered by health
C10_Witness ==
    /\ listShown
    /\ statusFilter = "all" /\ healthFilter = "all" /\ domainQuery = <<>>
    /\ Len(blogsWithHealth) = 2
    /\ blogsWithHealth[1].blog = blogs[2]
    /\ blogsWithHealth[1].health.level = "risk"
    /\ blogsWithHealth[2].health.level = "healthy"

----------------------------------------------------------------------------
(* Claims about the frame of the BlogList view (Spec) *)

\* C11: once the list is shown, no step of the page (a filter change, a
\* preset, the render that follows) changes the blog collection: the same
\* blogs in the same order with the same assets and statuses.
C11_ViewLeavesBlogsUnchanged ==
    [][listShown => blogs' = blogs]_vars

\* a filter is set and the view shows the blogs in another order than the
\* collection holds them
C11_Witness ==
    /\ listShown
    /\ healthFilter # "all"
    /\ Len(blogsWithHealth) = 2
    /\ blogsWithHealth[1].blog = blogs[2]

----------------------------------------------------------------------------
(* Claims about buildSnapshot (SpecSnapshot) *)

snapshotReturned == ret.fn = "buildSnapshot"

\* C13: buildSnapshot returns one record per blog, the i-th record
\* describing the i-th blog of the collection; it is not re-sorted.
C13_OneRecordPerBlogInOrder ==
    snapshotReturned =>
        /\ Len(ret.val) = Len(ret.arg)
        /\ \A i \in Positions(ret.arg) :
              /\ ret.val[i].id = ret.arg[i].id
              /\ ret.val[i].displayName = ret.arg[i].displayName

\* a healthy blog ahead of a blog at risk keeps its place
C13_Witness ==
    /\ snapshotReturned
    /\ Len(ret.val) = 2
    /\ ret.val[1].health = "healthy"
    /\ ret.val[2].health = "risk"

\* C14: the record of a blog carries its id, domain, displayName and status,
\* the level and the critical and important missing-counts of deriveHealth,
\* and per category the result of deriveSectionCompleteness.
C14_RecordContents ==
    snapshotReturned =>
        \A i \in Positions(ret.arg) :
            LET blog == ret.arg[i]
                rec == ret.val[i]
                health == deriveHealth(blog)
            IN  /\ rec.id = blog.id
                /\ rec.domain = blog.domain
                /\ rec.displayName = blog.displayName
                /\ rec.status = blog.status
                /\ rec.health = health.level
                /\ rec.missingCritical = health.missing.critical
                /\ rec.missingImportant = health.missing.important
                /\ \A category \in AssetCategory :
                      rec.sections[category] = deriveSectionCompleteness(blog.assets, category)

\* a record whose three sections differ and that counts a missing asset
C14_Witness ==
    /\ snapshotReturned
    /\ \E i \in Positions(ret.val) :
          /\ ret.val[i].missingImportant = 1
          /\ ret.val[i].sections.distribution.total = 1
          /\ ret.val[i].sections.external.total = 1
          /\ ret.val[i].sections.internal.total = 0

----------------------------------------------------------------------------
(* Claims about snapshotToCSV (SpecSnapshot) *)

csvReturned == ret.fn = "snapshotToCSV"

\* how a reader of the export cuts a text at a separator
RECURSIVE splitFrom(_, _, _, _)
splitFrom(text, i, sep, piece) ==
    IF i > Len(text) THEN <<piece>>
    ELSE IF text[i] = sep THEN <<piece>> \o splitFrom(text, i + 1, sep, <<>>)
    ELSE splitFrom(text, i + 1, sep, Append(piece, text[i]))

splitOn(text, sep) == splitFrom(text, 1, sep, <<>>)

holds(value, token) == \E k \in DOMAIN value : value[k] = token

startsWith(text, prefix) ==
    Len(text) >= Len(prefix) /\ SubSeq(text, 1, Len(prefix)) = prefix

eightColumns ==
    << <<"Domain">>, <<"Name">>, <<"Status">>, <<"Health">>, <<"Critical Missing">>,
       <<"Important Missing">>, <<"Internal Verified">>, <<"External Verified">> >>

verifiedOfTotal(assets, category) ==
    LET c == deriveSectionCompleteness(assets, category)
    IN  numberText(c.verified) \o <<"/">> \o numberText(c.total)

\* C15 as claimed: for every blog collection the export is the line of the
\* 8 column names followed by exactly one line per blog, in input order, and
\* in each body line the 7th and 8th cells are verified/total of the blog's
\* internal and external completeness.
C15_AsClaimed ==
    csvReturned =>
        LET lines == splitOn(ret.val, LF) IN
        /\ splitOn(lines[1], ",") = eightColumns
        /\ Len(lines) = 1 + Len(blogs)
        /\ \A i \in Positions(blogs) :
              LET cells == splitOn(lines[i + 1], ",") IN
              /\ Len(cells) >= 8
              /\ cells[7] = verifiedOfTotal(blogs[i].assets, "internal")
              /\ cells[8] = verifiedOfTotal(blogs[i].assets, "external")

\* C15 amended: the first line always is the 8 column names; when no domain
\* and no displayName of the collection holds a line feed, exactly one line
\* per blog follows, in input order (the line of blog i starts with its
\* domain and displayName); and for a blog whose domain and displayName hold
\* no comma, its line has 8 cells of which the 7th and 8th are
\* verified/total of its internal and external completeness.
C15_LinesAndCellsWithoutSeparators ==
    csvReturned =>
        LET lines == splitOn(ret.val, LF) IN
        /\ splitOn(lines[1], ",") = eightColumns
        /\ (\A i \in Positions(blogs) : ~holds(blogs[i].domain, LF) /\ ~holds(blogs[i].displayName, LF)) =>
              /\ Len(lines) = 1 + Len(blogs)
              /\ \A i \in Positions(blogs) :
                    /\ startsWith(lines[i + 1], blogs[i].domain \o <<",">> \o blogs[i].displayName \o <<",">>)
                    /\ (~holds(blogs[i].domain, ",") /\ ~holds(blogs[i].displayName, ",")) =>
                          LET cells == splitOn(lines[i + 1], ",") IN
                          /\ Len(cells) = 8
                          /\ cells[7] = verifiedOfTotal(blogs[i].assets, "internal")
                          /\ cells[8] = verifiedOfTotal(blogs[i].assets, "external")

\* two blogs without separators in their names were exported, one of them
\* with a verified external asset and a missing internal one
C15_Witness ==
    /\ csvReturned
    /\ Len(blogs) = 2
    /\ \A i \in Positions(blogs) :
          /\ blogs[i].displayName = <<"a">>
          /\ blogs[i].domain = <<"a">>
    /\ Len(splitOn(ret.val, LF)) = 3
    /\ splitOn(splitOn(ret.val, LF)[3], ",")[7] = <<"0", "/", "1">>
    /\ splitOn(splitOn(ret.val, LF)[3], ",")[8] = <<"1", "/", "1">>

\* the row of a record as the claim has it: the 8 cells with commas between
\* them, domain and displayName as they are
verbatimRow(snap) ==
    snap.domain \o <<",">> \o snap.displayName \o <<",", snap.status, ",", snap.health, ",">>
        \o numberText(snap.missingCritical) \o <<",">> \o numberText(snap.missingImportant) \o <<",">>
        \o numberText(snap.sections.internal.verified) \o <<"/">> \o numberText(snap.sections.internal.total)
        \o <<",">>
        \o numberText(snap.sections.external.verified) \o <<"/">> \o numberText(snap.sections.external.total)

RECURSIVE verbatimBody(_, _)
verbatimBody(snapshots, i) ==
    IF i > Len(snapshots) THEN <<>>
    ELSE <<LF>> \o verbatimRow(snapshots[i]) \o verbatimBody(snapshots, i + 1)

\* C16: snapshotToCSV escapes nothing: the export is the header line and,
\* behind a line feed each, the row of every record with domain and
\* displayName as they are; the row of a record whose domain or displayName
\* holds a comma splits into more than 8 fields, and the row of a record
\* without one into exactly 8, whatever the other records hold.
C16_NoEscaping ==
    csvReturned =>
        /\ ret.val = join(eightColumns, ",") \o verbatimBody(ret.arg, 1)
        /\ \A i \in Positions(ret.arg) :
              LET fields == splitOn(verbatimRow(ret.arg[i]), ",") IN
              IF holds(ret.arg[i].domain, ",") \/ holds(ret.arg[i].displayName, ",")
              THEN Len(fields) > 8
              ELSE Len(fields) = 8

\* a record with a comma in its displayName was exported next to one without
C16_Witness ==
    /\ csvReturned
    /\ Len(ret.arg) = 2
    /\ holds(ret.arg[1].displayName, ",")
    /\ ~holds(ret.arg[2].displayName, ",") /\ ~holds(ret.arg[2].domain, ",")
    /\ Len(ret.val) > 0

----------------------------------------------------------------------------
(* Claims about the factory functions (SpecSchema) *)

evidenceAdded == ret.fn = "addEvidence"

\* C17: addEvidence only appends: the evidence of the returned asset is the
\* evidence of the asset passed in, in order, with one entry of the given
\* type and value behind it; every other field of the returned asset is the
\* one passed in; and the asset passed in still is what it was.
C17_AddEvidenceAppends ==
    evidenceAdded =>
        LET before == ret.arg.asset
            n == Len(before.evidence)
        IN  /\ Len(ret.val.evidence) = n + 1
            /\ \A k \in 1..n : ret.val.evidence[k] = before.evidence[k]
            /\ ret.val.evidence[n + 1].type = ret.arg.type
            /\ ret.val.evidence[n + 1].value = ret.arg.value
            /\ ret.val.evidence[n + 1].recordedAt \in Timestamps
            /\ DOMAIN ret.val = DOMAIN before
            /\ \A f \in DOMAIN before \ {"evidence"} : ret.val[f] = before[f]
            /\ blogs[1].assets[1] = before

\* evidence of another type was added to an asset that already had an entry
C17_Witness ==
    /\ evidenceAdded
    /\ Len(ret.val.evidence) = 2
    /\ ret.val.evidence[1].type # ret.val.evidence[2].type
    /\ Len(blogs[1].assets[1].evidence) = 1

assetCreated == ret.fn = "createAsset"

\* C18 as claimed: whatever the overrides, the category and importance of
\* the created asset are the category and defaultImportance of the
\* ASSET_TYPE_DEFINITIONS entry of the type passed in.
C18_AsClaimed ==
    assetCreated =>
        /\ ret.val.category = ASSET_TYPE_DEFINITIONS[ret.arg.type].category
        /\ ret.val.importance = ASSET_TYPE_DEFINITIONS[ret.arg.type].defaultImportance

\* C18 amended: the category of the created asset is the category given in
\* overrides if overrides has one, else the category of the
\* ASSET_TYPE_DEFINITIONS entry of the type passed in; likewise the
\* importance and the entry's defaultImportance.
C18_DerivedUnlessOverridden ==
    assetCreated =>
        /\ ret.val.category =
              IF "category" \in DOMAIN ret.arg.overrides
              THEN ret.arg.overrides.category
              ELSE ASSET_TYPE_DEFINITIONS[ret.arg.type].category
        /\ ret.val.importance =
              IF "importance" \in DOMAIN ret.arg.overrides
              THEN ret.arg.overrides.importance
              ELSE ASSET_TYPE_DEFINITIONS[ret.arg.type].defaultImportance

\* an external, important asset was created with overrides that set neither
\* category nor importance
C18_Witness ==
    /\ assetCreated
    /\ ret.arg.overrides = [status |-> "verified"]
    /\ ret.val.status = "verified"
    /\ ret.val.category = "external"
    /\ ret.val.importance = "important"

----------------------------------------------------------------------------
(* Claims about the capability checks (SpecDetail) *)

healthOfEvery(bs) == [i \in DOMAIN bs |-> deriveHealth(bs[i])]

\* C19: the capability checks change nothing that is loaded or derived: in
\* the step that starts the checks, in every step while they run and in the
\* step that stores their results, the blog collection (with every asset
\* status) and deriveHealth of every blog stay what they were.
C19_ChecksLeaveBlogsAndHealth ==
    [][(checking \/ checking') =>
          /\ blogs' = blogs
          /\ healthOfEvery(blogs') = healthOfEvery(blogs)]_vars

\* the production site was found reachable and is shown so, while its asset
\* still is not_created and the blog's health still names it
C19_Witness ==
    /\ BlogDetail.kind = "detail"
    /\ checkResults # NoResults
    /\ checkResults[1].productionSite.detected
    /\ ~checking
    /\ \E k \in DOMAIN BlogDetail.assets :
          /\ BlogDetail.assets[k].type = "production_site"
          /\ BlogDetail.assets[k].status = "not_created"
    /\ BlogDetail.health.level = "risk"
    /\ BlogDetail.health.reasons = <<reasonFor([type |-> "production_site"])>>

\* a loaded blog is on the page
blogOnPage == ~loading /\ error = Null /\ findBlog(blogs, blogId) # <<>>

\* C20: the capability checks never run by themselves and never hold up
\* the page: a check starts only by handleRunChecks, checkResults is null
\* until a check that was started so has resolved, and whenever the blog is
\* loaded the page shows its health and its assets, whether no check has
\* run, one is in flight, or one has resolved.
C20_ManualAndNonBlocking ==
    /\ [][(~checking /\ checking') => handleRunChecks]_vars
    /\ [][(run = NoRun /\ run' # NoRun) => handleRunChecks]_vars
    /\ [][checkResults' # checkResults => (checking /\ run # NoRun)]_vars
    /\ [](blogOnPage =>
            /\ BlogDetail.kind = "detail"
            /\ BlogDetail.health = deriveHealth(findBlog(blogs, blogId)[1])
            /\ BlogDetail.assets = findBlog(blogs, blogId)[1].assets)

\* a check is in flight for the first time: the page shows the health and
\* the assets of the blog, and no results yet
C20_Witness ==
    /\ checking
    /\ run # NoRun
    /\ checkResults = NoResults
    /\ BlogDetail.kind = "detail"
    /\ BlogDetail.health.level = "risk"
    /\ Len(BlogDetail.assets) = 2

----------------------------------------------------------------------------
(* Claims about the sections of a snapshot record (SpecSnapshot) *)

knownCategories(blog) == \A k \in DOMAIN blog.assets : blog.assets[k].category \in AssetCategory

verifiedOrConnected(assets) ==
    Cardinality({k \in DOMAIN assets : assets[k].status \in {"verified", "connected"}})

\* C29: in the snapshot record of a blog whose assets all have one of the
\* three categories, the totals of the three sections add up to the number
\* of the blog's assets and the verified counts of the three sections add
\* up to the number of its assets that are verified or connected.
C29_SectionsPartitionAssets ==
    snapshotReturned =>
        \A i \in DOMAIN ret.arg :
            knownCategories(ret.arg[i]) =>
                LET sections == ret.val[i].sections
                    assets == ret.arg[i].assets
                IN  /\ sections.internal.total + sections.external.total
                          + sections.distribution.total = Len(assets)
                    /\ sections.internal.verified + sections.external.verified
                          + sections.distribution.verified = verifiedOrConnected(assets)

\* a record of a blog with an internal and an external asset, one verified
C29_Witness ==
    /\ snapshotReturned
    /\ \E i \in DOMAIN ret.arg :
          /\ Len(ret.arg[i].assets) = 2
          /\ ret.val[i].sections.internal.total = 1
          /\ ret.val[i].sections.external = [total |-> 1, verified |-> 1]
          /\ verifiedOrConnected(ret.arg[i].assets) = 1

----------------------------------------------------------------------------
(* Claims about the two health functions (SpecEngine) *)

schemaHealthReturned == ret.fn = "calculateHealth"

\* C30: a blog that deriveHealth puts at "risk" is put at "critical" by the
\* schema's calculateHealth.
C30_RiskImpliesCritical ==
    schemaHealthReturned =>
        (deriveHealth(ret.arg).level = "risk" => ret.val.level = "critical")

\* calculateHealth returned "critical" for a blog that deriveHealth puts at
\* "risk" because of a critical asset in the error state
C30_Witness ==
    /\ schemaHealthReturned
    /\ deriveHealth(ret.arg).level = "risk"
    /\ ret.val.level = "critical"
    /\ ret.val.criticalTotal = 1
    /\ Len(ret.val.errors) = 1

----------------------------------------------------------------------------
(* Claims about the stability of the BlogList view (Spec) *)

\* the place of a blog in the loaded collection
placeOf(b) == CHOOSE i \in Positions(blogs) : blogs[i] = b

\* C22: two entries of the view with the same health rank whose display
\* names compare equal are in the order in which their blogs are in the
\* loaded collection.
C22_EqualEntriesKeepOrder ==
    listShown =>
        LET view == blogsWithHealth IN
        \A k1, k2 \in Positions(view) :
            ( /\ k1 < k2
              /\ healthRank(view[k1].health.level) = healthRank(view[k2].health.level)
              /\ localeCompare(view[k1].blog.displayName, view[k2].blog.displayName) = 0 )
            => placeOf(view[k1].blog) < placeOf(view[k2].blog)

\* two blogs of one level and one name, but of different domains, are shown
C22_Witness ==
    /\ listShown
    /\ Len(blogsWithHealth) = 2
    /\ blogsWithHealth[1].health.level = blogsWithHealth[2].health.level
    /\ blogsWithHealth[1].blog.displayName = blogsWithHealth[2].blog.displayName
    /\ blogsWithHealth[1].blog.domain # blogsWithHealth[2].blog.domain
    /\ blogsWithHealth[1].blog = blogs[1]

----------------------------------------------------------------------------
(* Claims about the export of the blog list page (SpecExport) *)

exported == ret.fn \in {"exportJSON", "exportCSV"}

\* C28: whatever the filters are, the snapshot of exportJSON and of
\* exportCSV is the snapshot of the whole loaded collection in catalogue
\* order: one record per loaded blog, the k-th for the k-th blog; and the
\* CSV text is made of that snapshot.
C28_ExportIgnoresFilters ==
    exported =>
        /\ Len(ret.snapshot) = Len(blogs)
        /\ \A k \in Positions(blogs) : ret.snapshot[k] = buildSnapshotRecord(blogs[k])
        /\ ret.fn = "exportCSV" => ret.csv = snapshotToCSV(buildSnapshot(blogs))

\* a CSV export of two blogs while the view shows only the second of them
C28_Witness ==
    /\ ret.fn = "exportCSV"
    /\ Len(blogs) = 2
    /\ Len(blogsWithHealth) = 1
    /\ blogsWithHealth[1].blog = blogs[2]
    /\ Len(ret.snapshot) = 2
    /\ ret.snapshot[1].id = blogs[1].id

----------------------------------------------------------------------------
(* Claims about useBlogsData (SpecHook, SpecHookSettling) *)

\* the step in which the k-th loadData call settles
settles(k) == inFlight(k) /\ loads'[k].state # "in_flight"

\* C23: a loadData call that no other call overlapped ends in one of two
\* ways, with loading false in both: blogs is the fetched collection and
\* error is null, or error is the message caught and blogs is empty.
C23_LoadEndsInOneOfTwoOutcomes ==
    [][\A k \in DOMAIN loads :
          (settles(k) /\ ~loads[k].overlapped) =>
              /\ loading' = FALSE
              /\ \/ /\ loads'[k].state = "ok"
                    /\ blogs' = loads'[k].data
                    /\ error' = Null
                 \/ /\ loads'[k].state = "failed"
                    /\ error' # Null
                    /\ error' = loads'[k].message
                    /\ blogs' = <<>>]_vars

\* a reload after a load that brought a blog has failed on its own
C23_Witness ==
    /\ Len(loads) = 2
    /\ loads[1].state = "ok" /\ loads[1].data # <<>> /\ ~loads[1].overlapped
    /\ loads[2].state = "failed" /\ ~loads[2].overlapped
    /\ error # Null
    /\ blogs = <<>>
    /\ ~loading

\* C24: every loadData call, once in flight, comes to a state in which it
\* has settled and loading is false, after a success and after a failure
\* alike; and when calls were made and none is in flight, loading is false.
C24_LoadingEnds ==
    /\ \A k \in 1..MaxLoads : inFlight(k) ~> (~inFlight(k) /\ ~loading)
    /\ []((loads # NoLoads /\ ~someInFlight) => ~loading)

\* two calls have settled, the last of them with a failure
C24_Witness ==
    /\ Len(loads) = 2
    /\ ~someInFlight
    /\ loads[2].state = "failed"
    /\ loads[1].state = "ok"
    /\ ~loading

\* C25 as claimed: whenever error is not null, blogs is the empty list.
C25_ErrorImpliesNoBlogs == error # Null => blogs = <<>>

\* C26 as claimed: loading is true whenever a loadData call is in flight.
C26_LoadingWhileInFlight == someInFlight => loading

----------------------------------------------------------------------------
(* Claims about the checking flag of the blog detail page (SpecDetail) *)

checksSettled == ret.fn = "runAllChecks"

\* C27: the checking flag guards the capability checks: while checking is
\* true the check button of the page is disabled and exactly one
\* runAllChecks call is in flight, and none is while it is false; the
\* promise of runAllChecks always fulfils, with detected = false for the
\* production site when its fetch failed; and the step in which the run
\* settles sets checking to false.
C27_CheckingGuardsTheRun ==
    /\ [](Len(run) <= 1)
    /\ [](checking <=> run # NoRun)
    /\ []((checking /\ BlogDetail.kind = "detail") => BlogDetail.checkButton.disabled)
    /\ [](checksSettled =>
            /\ ret.val.state = "fulfilled"
            /\ ~ret.arg.responded => ~ret.val.value.productionSite.detected)
    /\ [][Len(run') < Len(run) => ~checking']_vars

\* a run whose site fetch failed has settled: the page shows the site as
\* not detected and can start the next run
C27_Witness ==
    /\ checksSettled
    /\ truthy(ret.arg.productionUrl)
    /\ ~ret.arg.responded
    /\ checkResults = <<ret.val.value>>
    /\ ret.val.value.productionSite.notes = <<"Site unreachable or blocked by CORS">>
    /\ ~checking
    /\ ~BlogDetail.checkButton.disabled

----------------------------------------------------------------------------
(* Claims about calls of several callers (SpecCallers) *)

\* what a call returns when nothing else runs: the function of its input
alone(call) ==
    CASE call.fn = "deriveHealth" -> deriveHealth(call.input[call.blog])
      [] call.fn = "deriveSectionCompleteness" ->
            deriveSectionCompleteness(call.input[call.blog].assets, call.category)
      [] call.fn = "buildSnapshot" -> buildSnapshot(call.input)
      [] call.fn = "snapshotToCSV" -> snapshotToCSV(call.arg)

hasReturned(c) == calls[c].done /\ calls[c].fn # "none"

\* C21: however the calls of deriveHealth, deriveSectionCompleteness,
\* buildSnapshot and snapshotToCSV of several callers on one collection
\* interleave, every call returns what it returns when run alone, and no
\* step of a call changes the collection.
C21_CallsAreIndependent ==
    /\ [](\A c \in Callers : hasReturned(c) => calls[c].val = alone(calls[c].call))
    /\ [][blogs' = blogs]_vars

\* deriveHealth has returned "risk" to one caller that ran while another
\* caller is in the middle of buildSnapshot on the same collection
C21_Witness ==
    /\ hasReturned("c1")
    /\ calls["c1"].fn = "deriveHealth"
    /\ calls["c1"].val.level = "risk"
    /\ inCall("c2")
    /\ calls["c2"].fn = "buildSnapshot"
    /\ calls["c2"].i = 2
    /\ Len(blogs) = 2

====
